---- MODULE Spec2Model ----
(***************************************************************************)
(* The handshake engine of TCPHandshakeSimulator.tsx as a state machine.   *)
(*                                                                         *)
(* The React state of the component is the state of the machine.  Every    *)
(* action is one browser task: a click handler or a timer / animation      *)
(* callback, run together with the promise continuations it resumes, up to *)
(* the next timed suspension.  State updates made in one task are applied  *)
(* together (React batches them into one render).  A handler works on the  *)
(* values of the render in which it was created: these are kept in the     *)
(* closure record of the run for as long as the handler is in flight.      *)
(***************************************************************************)
EXTENDS Integers, Sequences, FiniteSets, TLC

(***************************************************************************)
(* Bounds of the model.                                                    *)
(***************************************************************************)
\* Math.random() is drawn from a grid of RandomGrid + 1 points of [0, 1) where
\* it makes an ISN.
RandomGrid == 1
\* No new run is started once the log holds more than MaxLogLen entries.
MaxLogLen == 8

(***************************************************************************)
(* Program constants.                                                      *)
(***************************************************************************)
maxRetries == 3
ISNBase == 1000
ISNRange == 10000
LossThreshold == 3000
InitialServerISN == 2000
LastStep == 3

\* Math.random() in units of 1/10000: u stands for a value in
\* [u/10000, (u+1)/10000).  Where it makes an ISN it is drawn from a grid
\* that holds the least and the greatest value; where it decides a random
\* loss, from the two values on either side of the threshold.
ISNRandom == {(k * (ISNRange - 1)) \div RandomGrid : k \in 0..RandomGrid}
LossRandom == {LossThreshold - 1, LossThreshold}

(***************************************************************************)
(* Strings the code transforms are sequences of characters.                *)
(***************************************************************************)
SYN == <<"S", "Y", "N">>
SYN_ACK == <<"S", "Y", "N", "-", "A", "C", "K">>
ACK == <<"A", "C", "K">>
PacketType == {SYN, SYN_ACK, ACK}

loss_none == <<"n", "o", "n", "e">>
loss_syn == <<"s", "y", "n">>
loss_syn_ack == <<"s", "y", "n", "-", "a", "c", "k">>
loss_ack == <<"a", "c", "k">>
loss_random == <<"r", "a", "n", "d", "o", "m">>
PacketLoss == {loss_none, loss_syn, loss_syn_ack, loss_ack, loss_random}

TCPState == {"CLOSED", "SYN-SENT", "SYN-RECEIVED", "ESTABLISHED", "FAILED"}
ConnectionStatus == {"idle", "connecting", "established", "failed"}
SimulationMode == {"auto", "step"}

LowerOf(c) ==
  CASE c = "A" -> "a" [] c = "C" -> "c" [] c = "K" -> "k" [] c = "N" -> "n"
    [] c = "S" -> "s" [] c = "Y" -> "y" [] OTHER -> c

toLowerCase(str) == [i \in 1..Len(str) |-> LowerOf(str[i])]

\* An absent optional number (seq?: number, ack?: number).
undefined == -1

VARIABLES
  clientState, serverState, connectionStatus, logs,
  simulationMode, packetLoss, randomizeISN,
  currentStep, isSimulating, retryCount,
  clientISN, serverISN, clientSeq, serverSeq,
  mounted,   \* the mount effect has run
  run,       \* the most recent handler invocation, its position and closure
  lastReset, \* the closures of the most recent resetSimulation call: none
             \* before the mount effect, one afterwards
  simple     \* the SimpleTCPSimulator component driven side by side with
             \* this one: its state, its most recent handler invocation and
             \* whether it has been rendered

vars == <<clientState, serverState, connectionStatus, logs,
          simulationMode, packetLoss, randomizeISN,
          currentStep, isSimulating, retryCount,
          clientISN, serverISN, clientSeq, serverSeq, mounted, run, lastReset,
          simple>>

\* The part of the React state the handlers write, as one record.
State ==
  [clientState |-> clientState, serverState |-> serverState,
   connectionStatus |-> connectionStatus, logs |-> logs,
   currentStep |-> currentStep, isSimulating |-> isSimulating,
   retryCount |-> retryCount,
   clientISN |-> clientISN, serverISN |-> serverISN,
   clientSeq |-> clientSeq, serverSeq |-> serverSeq]

Commit(s) ==
  /\ clientState' = s.clientState
  /\ serverState' = s.serverState
  /\ connectionStatus' = s.connectionStatus
  /\ logs' = s.logs
  /\ currentStep' = s.currentStep
  /\ isSimulating' = s.isSimulating
  /\ retryCount' = s.retryCount
  /\ clientISN' = s.clientISN
  /\ serverISN' = s.serverISN
  /\ clientSeq' = s.clientSeq
  /\ serverSeq' = s.serverSeq

\* The values of the current render that the handlers of the main button
\* close over (the settings they never read are left out).
Closure ==
  [clientState |-> clientState, serverState |-> serverState,
   connectionStatus |-> connectionStatus, logs |-> logs,
   currentStep |-> currentStep, isSimulating |-> isSimulating,
   retryCount |-> retryCount,
   clientSeq |-> clientSeq, serverSeq |-> serverSeq,
   packetLoss |-> packetLoss]

\* What resetSimulation reads of the render it was created in.
ResetClosure == [randomizeISN |-> randomizeISN]

\* The most recent handler invocation: which handler ("none" before the
\* mount effect, "reset", "auto", "step"), the step it last attempted, the
\* attempts of that step that have failed, where it is suspended (pc, "idle"
\* once it has returned), what it does after a delay, and its closure.
NewRun(handler, step, cl) ==
  [pc |-> "idle", handler |-> handler, step |-> step, attempts |-> 0,
   after |-> "none", cl |-> cl]

Returned(r) == [r EXCEPT !.pc = "idle"]

(***************************************************************************)
(* Sequence Number Generator.                                              *)
(***************************************************************************)
generateISN(randomize, u) == IF randomize THEN u + ISNBase ELSE ISNBase

(***************************************************************************)
(* Log.  The timestamp and id of an entry come from the wall clock and are *)
(* left out; message and type are kept.                                    *)
(***************************************************************************)
\* Variant: the log keeps its last five entries only.
addLog_KeepLastFive(s, message, type) ==
  [s EXCEPT !.logs = Append(IF Len(@) > 4
                              THEN SubSeq(@, Len(@) - 3, Len(@)) ELSE @,
                            [message |-> message, type |-> type])]

addLog(s, message, type) ==
  [s EXCEPT !.logs = Append(@, [message |-> message, type |-> type])]

ResetMessage == <<"Simulation reset. Ready to start TCP 3-Way Handshake.">>
LostMessage(type) == <<"packet lost!", type>>
EstablishedMessage == <<"CONNECTION ESTABLISHED">>
FailedMessage == <<"CONNECTION FAILED - Max retries exceeded">>
RetransmitMessage(attempt) == <<"Retransmitting... (Attempt", attempt, maxRetries>>

\* `${type}${seq ? ` (seq=${seq}${ack ? `, ack=${ack}` : ''})` : ''}`
Truthy(n) == n # undefined /\ n # 0
SentMessage(animation) ==
  <<"sent", animation.direction, animation.type,
    IF Truthy(animation.seq) THEN animation.seq ELSE undefined,
    IF Truthy(animation.seq) /\ Truthy(animation.ack)
      THEN animation.ack ELSE undefined>>

(***************************************************************************)
(* Reset.                                                                  *)
(***************************************************************************)
\* Variant: the log is not cleared before the reset notice is added.
resetSimulation_KeepLogs(s, randomize, u1, u2) ==
  LET newClientISN == generateISN(randomize, u1)
      newServerISN == generateISN(randomize, u2)
  IN addLog([clientState |-> "CLOSED", serverState |-> "CLOSED",
             connectionStatus |-> "idle", logs |-> s.logs,
             currentStep |-> 0, isSimulating |-> FALSE, retryCount |-> 0,
             clientISN |-> newClientISN, serverISN |-> newServerISN,
             clientSeq |-> newClientISN, serverSeq |-> newServerISN],
            ResetMessage, "info")

\* Variant: the retry counter is not reset.
resetSimulation_KeepRetryCount(s, randomize, u1, u2) ==
  LET newClientISN == generateISN(randomize, u1)
      newServerISN == generateISN(randomize, u2)
  IN addLog([clientState |-> "CLOSED", serverState |-> "CLOSED",
             connectionStatus |-> "idle", logs |-> <<>>,
             currentStep |-> 0, isSimulating |-> FALSE,
             retryCount |-> s.retryCount,
             clientISN |-> newClientISN, serverISN |-> newServerISN,
             clientSeq |-> newClientISN, serverSeq |-> newServerISN],
            ResetMessage, "info")

resetSimulation(s, randomize, u1, u2) ==
  LET newClientISN == generateISN(randomize, u1)
      newServerISN == generateISN(randomize, u2)
  IN addLog([clientState |-> "CLOSED", serverState |-> "CLOSED",
             connectionStatus |-> "idle", logs |-> <<>>,
             currentStep |-> 0, isSimulating |-> FALSE, retryCount |-> 0,
             clientISN |-> newClientISN, serverISN |-> newServerISN,
             clientSeq |-> newClientISN, serverSeq |-> newServerISN],
            ResetMessage, "info")

(***************************************************************************)
(* Loss Oracle.                                                            *)
(***************************************************************************)
\* Variant: the policy is matched as a prefix of the lower-cased packet kind.
shouldDropPacket_Prefix(packetType, loss, u) ==
  IF loss = loss_none THEN FALSE
  ELSE IF /\ Len(loss) <= Len(packetType)
          /\ loss = SubSeq(toLowerCase(packetType), 1, Len(loss)) THEN TRUE
  ELSE IF loss = loss_random THEN u < LossThreshold
  ELSE FALSE

\* Variant: the packet kind is compared without toLowerCase().
shouldDropPacket_NoLowerCase(packetType, loss, u) ==
  IF loss = loss_none THEN FALSE
  ELSE IF loss = packetType THEN TRUE
  ELSE IF loss = loss_random THEN u < LossThreshold
  ELSE FALSE

shouldDropPacket(packetType, loss, u) ==
  IF loss = loss_none THEN FALSE
  ELSE IF loss = toLowerCase(packetType) THEN TRUE
  ELSE IF loss = loss_random THEN u < LossThreshold
  ELSE FALSE


(***************************************************************************)
(* animatePacket up to the point where it suspends.  The packet and canvas *)
(* elements are rendered unconditionally, so their refs are attached for   *)
(* as long as the component is mounted.  pc tells what the promise waits   *)
(* for: the 500 ms timer of a lost packet ("lost", resolves false) or the  *)
(* end of the transit animation ("transit", resolves true).                *)
(***************************************************************************)
animatePacket(s, animation, loss, u) ==
  IF shouldDropPacket(animation.type, loss, u)
    THEN [s |-> addLog(s, LostMessage(animation.type), "error"), pc |-> "lost"]
    ELSE [s |-> addLog(s, SentMessage(animation), "info"), pc |-> "transit"]

(***************************************************************************)
(* Handshake Step Executor.  executeStep is split at its await:            *)
(* executeStepSend is the part before it (the pre-transition and the       *)
(* packet), executeStepResolve the part after it.                          *)
(***************************************************************************)
\* Variant: the default case is missing and an unknown index runs case 3.
executeStepSend_DefaultIsAck(s, step, cl, u) ==
  CASE step = 1 ->
         animatePacket([s EXCEPT !.clientState = "SYN-SENT",
                                 !.connectionStatus = "connecting"],
                       [type |-> SYN, seq |-> cl.clientSeq, ack |-> undefined,
                        direction |-> "client-to-server"],
                       cl.packetLoss, u)
    [] step = 2 ->
         animatePacket([s EXCEPT !.serverState = "SYN-RECEIVED"],
                       [type |-> SYN_ACK, seq |-> cl.serverSeq,
                        ack |-> cl.clientSeq + 1,
                        direction |-> "server-to-client"],
                       cl.packetLoss, u)
    [] OTHER ->
         animatePacket(s,
                       [type |-> ACK, seq |-> cl.clientSeq + 1,
                        ack |-> cl.serverSeq + 1,
                        direction |-> "client-to-server"],
                       cl.packetLoss, u)

executeStepSend(s, step, cl, u) ==
  CASE step = 1 ->
         animatePacket([s EXCEPT !.clientState = "SYN-SENT",
                                 !.connectionStatus = "connecting"],
                       [type |-> SYN, seq |-> cl.clientSeq, ack |-> undefined,
                        direction |-> "client-to-server"],
                       cl.packetLoss, u)
    [] step = 2 ->
         animatePacket([s EXCEPT !.serverState = "SYN-RECEIVED"],
                       [type |-> SYN_ACK, seq |-> cl.serverSeq,
                        ack |-> cl.clientSeq + 1,
                        direction |-> "server-to-client"],
                       cl.packetLoss, u)
    [] step = 3 ->
         animatePacket(s,
                       [type |-> ACK, seq |-> cl.clientSeq + 1,
                        ack |-> cl.serverSeq + 1,
                        direction |-> "client-to-server"],
                       cl.packetLoss, u)
    [] OTHER -> [s |-> s, pc |-> "invalid"]

\* The value executeStep returns, by the way its wait ended: true after the
\* transit animation, false after a loss, false at once for an unknown index.
executeStepValue(pc) == pc = "transit"

\* Variant: the delivered ACK advances the client's sequence number.
executeStepResolve_AdvanceSeq(s, step, success) ==
  IF step = 3 /\ success
    THEN addLog([s EXCEPT !.clientState = "ESTABLISHED",
                          !.serverState = "ESTABLISHED",
                          !.connectionStatus = "established",
                          !.clientSeq = @ + 1],
                EstablishedMessage, "success")
    ELSE s

\* Variant: a lost SYN takes the client's pre-transition back.
executeStepResolve_RollBack(s, step, success) ==
  IF step = 3 /\ success
    THEN addLog([s EXCEPT !.clientState = "ESTABLISHED",
                          !.serverState = "ESTABLISHED",
                          !.connectionStatus = "established"],
                EstablishedMessage, "success")
    ELSE IF step = 1 /\ ~success
           THEN [s EXCEPT !.clientState = "CLOSED", !.connectionStatus = "idle"]
           ELSE s

executeStepResolve(s, step, success) ==
  IF step = 3 /\ success
    THEN addLog([s EXCEPT !.clientState = "ESTABLISHED",
                          !.serverState = "ESTABLISHED",
                          !.connectionStatus = "established"],
                EstablishedMessage, "success")
    ELSE s

(***************************************************************************)
(* Simulation Driver: what the driver does once handleStepExecution has    *)
(* returned.  r is the run, success the value returned.                    *)
(***************************************************************************)
\* Variant: the step counter is not advanced after a successful step.
executeNextStepResume_NoAdvance(s, r, success) ==
  [s |-> [s EXCEPT !.isSimulating = FALSE], run |-> Returned(r)]

\* Variant: the step counter is advanced whether or not the step succeeded.
executeNextStepResume_Unconditional(s, r, success) ==
  [s |-> [s EXCEPT !.currentStep = r.cl.currentStep + 1,
                   !.isSimulating = FALSE],
   run |-> Returned(r)]

executeNextStepResume(s, r, success) ==
  LET nextStep == r.cl.currentStep + 1
      s1 == IF success THEN [s EXCEPT !.currentStep = nextStep] ELSE s
  IN [s |-> [s1 EXCEPT !.isSimulating = FALSE], run |-> Returned(r)]

startAutoSimulationResume(s, r, success) ==
  IF ~success
    THEN [s |-> [s EXCEPT !.isSimulating = FALSE], run |-> Returned(r)]
    ELSE LET s1 == [s EXCEPT !.currentStep = r.step]
         IN IF r.step < LastStep
              THEN [s |-> s1,
                    run |-> [r EXCEPT !.pc = "delay", !.after = "next"]]
              ELSE [s |-> [s1 EXCEPT !.isSimulating = FALSE], run |-> Returned(r)]

driverResume(s, r, success) ==
  IF r.handler = "auto"
    THEN startAutoSimulationResume(s, r, success)
    ELSE executeNextStepResume(s, r, success)

(***************************************************************************)
(* Retry Controller.  handleStepExecutionResult is the loop body after     *)
(* executeStep has returned; handleStepExecutionAttempt is one pass of the *)
(* loop up to the suspension inside executeStep.                           *)
(***************************************************************************)
\* Variant: a successful attempt leaves the retry counter as it is.
handleStepExecutionResult_KeepRetryCount(s, r, success) ==
  IF success
    THEN driverResume(s, r, TRUE)
    ELSE LET attempts == r.attempts + 1
             s1 == [s EXCEPT !.retryCount = attempts]
         IN IF attempts < maxRetries
              THEN [s |-> addLog(s1, RetransmitMessage(attempts + 1), "warning"),
                    run |-> [r EXCEPT !.pc = "delay", !.after = "retry",
                                      !.attempts = attempts]]
              ELSE driverResume(
                     [addLog([s1 EXCEPT !.connectionStatus = "failed",
                                        !.clientState = "FAILED",
                                        !.serverState = "FAILED"],
                             FailedMessage, "error")
                        EXCEPT !.isSimulating = FALSE],
                     [r EXCEPT !.attempts = attempts], FALSE)

\* Variant: the run fails one attempt early.
handleStepExecutionResult_FailsEarly(s, r, success) ==
  IF success
    THEN driverResume([s EXCEPT !.retryCount = 0], r, TRUE)
    ELSE LET attempts == r.attempts + 1
             s1 == [s EXCEPT !.retryCount = attempts]
         IN IF attempts < maxRetries - 1
              THEN [s |-> addLog(s1, RetransmitMessage(attempts + 1), "warning"),
                    run |-> [r EXCEPT !.pc = "delay", !.after = "retry",
                                      !.attempts = attempts]]
              ELSE driverResume(
                     [addLog([s1 EXCEPT !.connectionStatus = "failed",
                                        !.clientState = "FAILED",
                                        !.serverState = "FAILED"],
                             FailedMessage, "error")
                        EXCEPT !.isSimulating = FALSE],
                     [r EXCEPT !.attempts = attempts], FALSE)

\* Variant: the loop allows one attempt more.
handleStepExecutionResult_ExtraAttempt(s, r, success) ==
  IF success
    THEN driverResume([s EXCEPT !.retryCount = 0], r, TRUE)
    ELSE LET attempts == r.attempts + 1
             s1 == [s EXCEPT !.retryCount = attempts]
         IN IF attempts < maxRetries + 1
              THEN [s |-> addLog(s1, RetransmitMessage(attempts + 1), "warning"),
                    run |-> [r EXCEPT !.pc = "delay", !.after = "retry",
                                      !.attempts = attempts]]
              ELSE driverResume(
                     [addLog([s1 EXCEPT !.connectionStatus = "failed",
                                        !.clientState = "FAILED",
                                        !.serverState = "FAILED"],
                             FailedMessage, "error")
                        EXCEPT !.isSimulating = FALSE],
                     [r EXCEPT !.attempts = attempts], FALSE)

handleStepExecutionResult(s, r, success) ==
  IF success
    THEN driverResume([s EXCEPT !.retryCount = 0], r, TRUE)
    ELSE LET attempts == r.attempts + 1
             s1 == [s EXCEPT !.retryCount = attempts]
         IN IF attempts < maxRetries
              THEN [s |-> addLog(s1, RetransmitMessage(attempts + 1), "warning"),
                    run |-> [r EXCEPT !.pc = "delay", !.after = "retry",
                                      !.attempts = attempts]]
              ELSE driverResume(
                     [addLog([s1 EXCEPT !.connectionStatus = "failed",
                                        !.clientState = "FAILED",
                                        !.serverState = "FAILED"],
                             FailedMessage, "error")
                        EXCEPT !.isSimulating = FALSE],
                     [r EXCEPT !.attempts = attempts], FALSE)

handleStepExecutionAttempt(s, r, u) ==
  LET e == executeStepSend(s, r.step, r.cl, u)
  IN IF e.pc = "invalid"
       THEN handleStepExecutionResult(executeStepResolve(e.s, r.step, FALSE),
                                      r, FALSE)
       ELSE [s |-> e.s, run |-> [r EXCEPT !.pc = e.pc]]

\* One iteration of the for loop of startAutoSimulation, from its top.
startAutoSimulationLoop(s, r, step, u) ==
  IF step > LastStep \/ ~r.cl.isSimulating
    THEN [s |-> [s EXCEPT !.isSimulating = FALSE], run |-> Returned(r)]
    ELSE handleStepExecutionAttempt(
           s, [r EXCEPT !.step = step, !.attempts = 0], u)


(***************************************************************************)
(* The two click handlers of the main button, each up to its first         *)
(* suspension.  cl is the closure of the render the handler comes from.    *)
(***************************************************************************)
startAutoSimulation(s, cl, u) ==
  startAutoSimulationLoop([s EXCEPT !.isSimulating = TRUE],
                          NewRun("auto", 0, cl), 1, u)

\* Variant: the test of the step counter is missing.
executeNextStep_NoGuard(s, cl, u) ==
  handleStepExecutionAttempt([s EXCEPT !.isSimulating = TRUE],
                             NewRun("step", cl.currentStep + 1, cl), u)

executeNextStep(s, cl, u) ==
  IF cl.currentStep >= LastStep
    THEN [s |-> s, run |-> NewRun("step", 0, cl)]
    ELSE handleStepExecutionAttempt([s EXCEPT !.isSimulating = TRUE],
                                    NewRun("step", cl.currentStep + 1, cl), u)

(***************************************************************************)
(* The retry controller and the two drivers with the constant maxRetries   *)
(* of handleStepExecution replaced by a parameter: the same code with      *)
(* `const maxRetries = limit`.                                             *)
(***************************************************************************)
handleStepExecutionResultWith(limit, s, r, success) ==
  IF success
    THEN driverResume([s EXCEPT !.retryCount = 0], r, TRUE)
    ELSE LET attempts == r.attempts + 1
             s1 == [s EXCEPT !.retryCount = attempts]
         IN IF attempts < limit
              THEN [s |-> addLog(s1, <<"Retransmitting... (Attempt",
                                       attempts + 1, limit>>, "warning"),
                    run |-> [r EXCEPT !.pc = "delay", !.after = "retry",
                                      !.attempts = attempts]]
              ELSE driverResume(
                     [addLog([s1 EXCEPT !.connectionStatus = "failed",
                                        !.clientState = "FAILED",
                                        !.serverState = "FAILED"],
                             FailedMessage, "error")
                        EXCEPT !.isSimulating = FALSE],
                     [r EXCEPT !.attempts = attempts], FALSE)

handleStepExecutionAttemptWith(limit, s, r, u) ==
  LET e == executeStepSend(s, r.step, r.cl, u)
  IN IF e.pc = "invalid"
       THEN handleStepExecutionResultWith(
              limit, executeStepResolve(e.s, r.step, FALSE), r, FALSE)
       ELSE [s |-> e.s, run |-> [r EXCEPT !.pc = e.pc]]

startAutoSimulationLoopWith(limit, s, r, step, u) ==
  IF step > LastStep \/ ~r.cl.isSimulating
    THEN [s |-> [s EXCEPT !.isSimulating = FALSE], run |-> Returned(r)]
    ELSE handleStepExecutionAttemptWith(
           limit, s, [r EXCEPT !.step = step, !.attempts = 0], u)

startAutoSimulationWith(limit, s, cl, u) ==
  startAutoSimulationLoopWith(limit, [s EXCEPT !.isSimulating = TRUE],
                              NewRun("auto", 0, cl), 1, u)

executeNextStepWith(limit, s, cl, u) ==
  IF cl.currentStep >= LastStep
    THEN [s |-> s, run |-> NewRun("step", 0, cl)]
    ELSE handleStepExecutionAttemptWith(
           limit, [s EXCEPT !.isSimulating = TRUE],
           NewRun("step", cl.currentStep + 1, cl), u)

\* The callback a run of the retrying variant waits for.
callbackWith(limit, s, r, u) ==
  CASE r.pc = "lost" ->
         handleStepExecutionResultWith(
           limit, executeStepResolve(s, r.step, FALSE), r, FALSE)
    [] r.pc = "transit" ->
         handleStepExecutionResultWith(
           limit, executeStepResolve(s, r.step, TRUE), r, TRUE)
    [] r.pc = "delay" ->
         IF r.after = "retry"
           THEN handleStepExecutionAttemptWith(limit, s, r, u)
           ELSE startAutoSimulationLoopWith(limit, s, r, r.step + 1, u)
    [] OTHER -> [s |-> s, run |-> r]

\* Variant: the main button is not disabled while a run is active.
MainButtonDisabled_IgnoresRun ==
  simulationMode = "step" /\ currentStep >= LastStep

\* disabled={isSimulating || (simulationMode === 'step' && currentStep >= 3)}
MainButtonDisabled ==
  isSimulating \/ (simulationMode = "step" /\ currentStep >= LastStep)

\* disabled={isSimulating}
ResetButtonDisabled == isSimulating

(***************************************************************************)
(* SimpleTCPSimulator (the variant without the retry loop), before its     *)
(* first render: the values given to useState, the two initial sequence    *)
(* numbers not drawn yet.                                                  *)
(***************************************************************************)
\* The values of the render a handler of the simple variant comes from.
SimpleClosure(t, loss) ==
  [currentStep |-> t.currentStep, isSimulating |-> t.isSimulating,
   packetLoss |-> loss]

SimpleNewRun(handler, step, cl) ==
  [pc |-> "idle", handler |-> handler, step |-> step, cl |-> cl]

SimpleNoRun ==
  SimpleNewRun("none", 0, [currentStep |-> 0, isSimulating |-> FALSE,
                           packetLoss |-> loss_none])

SimpleNotRendered ==
  [s |-> [clientState |-> "CLOSED", serverState |-> "CLOSED",
          connectionStatus |-> "idle", currentStep |-> 0,
          isSimulating |-> FALSE, logs |-> <<>>,
          clientISN |-> undefined, serverISN |-> undefined],
   run |-> SimpleNoRun,
   mounted |-> FALSE]

\* const [clientISN] = useState(() => ... + 1000 : 1000), and + 2000 : 2000
\* for the server; the initializers run once, with randomizeISN = true.
SimpleFirstRender(c, randomize, u1, u2) ==
  [c EXCEPT !.s.clientISN = IF randomize THEN u1 + ISNBase ELSE ISNBase,
            !.s.serverISN = IF randomize THEN u2 + InitialServerISN
                                         ELSE InitialServerISN]

\* setLogs(prev => [...prev.slice(-4), message])
SimpleAddLog(t, message) ==
  [t EXCEPT !.logs = Append(IF Len(@) > 4 THEN SubSeq(@, Len(@) - 3, Len(@))
                                          ELSE @,
                            message)]

SimpleFailedMessage == <<"CONNECTION FAILED">>

SimpleResetSimulation(t) ==
  SimpleAddLog([t EXCEPT !.clientState = "CLOSED",
                         !.serverState = "CLOSED",
                         !.connectionStatus = "idle",
                         !.currentStep = 0,
                         !.isSimulating = FALSE,
                         !.logs = <<>>],
               ResetMessage)

\* shouldDropPacket of the simple variant is the same function.
SimpleAnimatePacket(t, animation, loss, u) ==
  IF shouldDropPacket(animation.type, loss, u)
    THEN [s |-> SimpleAddLog(t, LostMessage(animation.type)), pc |-> "lost"]
    ELSE [s |-> SimpleAddLog(t, SentMessage(animation)), pc |-> "transit"]

SimpleExecuteStepSend(t, step, loss, u) ==
  CASE step = 1 ->
         SimpleAnimatePacket([t EXCEPT !.clientState = "SYN-SENT",
                                       !.connectionStatus = "connecting"],
                             [type |-> SYN, seq |-> t.clientISN,
                              ack |-> undefined,
                              direction |-> "client-to-server"],
                             loss, u)
    [] step = 2 ->
         SimpleAnimatePacket([t EXCEPT !.serverState = "SYN-RECEIVED"],
                             [type |-> SYN_ACK, seq |-> t.serverISN,
                              ack |-> t.clientISN + 1,
                              direction |-> "server-to-client"],
                             loss, u)
    [] step = 3 ->
         SimpleAnimatePacket(t,
                             [type |-> ACK, seq |-> t.clientISN + 1,
                              ack |-> t.serverISN + 1,
                              direction |-> "client-to-server"],
                             loss, u)
    [] OTHER -> [s |-> t, pc |-> "invalid"]

SimpleExecuteStepResolve(t, step, success) ==
  IF step = 3 /\ success
    THEN SimpleAddLog([t EXCEPT !.clientState = "ESTABLISHED",
                                !.serverState = "ESTABLISHED",
                                !.connectionStatus = "established"],
                      EstablishedMessage)
    ELSE t

\* setConnectionStatus('failed'); setClientState('FAILED'); ...
SimpleFail(t) ==
  SimpleAddLog([t EXCEPT !.connectionStatus = "failed",
                         !.clientState = "FAILED",
                         !.serverState = "FAILED"],
               SimpleFailedMessage)

\* Variant: a dropped packet is retransmitted as long as the step is not
\* the last one.
SimpleExecuteNextStepResume_Lenient(t, r, success) ==
  LET t1 == IF success THEN [t EXCEPT !.currentStep = r.cl.currentStep + 1]
            ELSE IF r.step < LastStep THEN t ELSE SimpleFail(t)
  IN [s |-> [t1 EXCEPT !.isSimulating = FALSE], run |-> [r EXCEPT !.pc = "idle"]]

\* executeNextStep of the simple variant after its await.
SimpleExecuteNextStepResume(t, r, success) ==
  LET t1 == IF success THEN [t EXCEPT !.currentStep = r.cl.currentStep + 1]
                       ELSE SimpleFail(t)
  IN [s |-> [t1 EXCEPT !.isSimulating = FALSE], run |-> [r EXCEPT !.pc = "idle"]]

\* startAutoSimulation of the simple variant after the await of executeStep.
SimpleStartAutoSimulationResume(t, r, success) ==
  IF ~success
    THEN [s |-> [SimpleFail(t) EXCEPT !.isSimulating = FALSE],
          run |-> [r EXCEPT !.pc = "idle"]]
    ELSE LET t1 == [t EXCEPT !.currentStep = r.step]
         IN IF r.step < LastStep
              THEN [s |-> t1, run |-> [r EXCEPT !.pc = "delay"]]
              ELSE [s |-> [t1 EXCEPT !.isSimulating = FALSE],
                    run |-> [r EXCEPT !.pc = "idle"]]

SimpleResume(t, r, success) ==
  IF r.handler = "auto"
    THEN SimpleStartAutoSimulationResume(t, r, success)
    ELSE SimpleExecuteNextStepResume(t, r, success)

\* A call of executeStep up to its suspension, or through its default case.
SimpleExecuteStep(t, r, u) ==
  LET e == SimpleExecuteStepSend(t, r.step, r.cl.packetLoss, u)
  IN IF e.pc = "invalid"
       THEN SimpleResume(SimpleExecuteStepResolve(e.s, r.step, FALSE), r, FALSE)
       ELSE [s |-> e.s, run |-> [r EXCEPT !.pc = e.pc]]

\* One iteration of the for loop of startAutoSimulation, from its top.
SimpleStartAutoSimulationLoop(t, r, step, u) ==
  IF step > LastStep \/ ~r.cl.isSimulating
    THEN [s |-> [t EXCEPT !.isSimulating = FALSE],
          run |-> [r EXCEPT !.pc = "idle"]]
    ELSE SimpleExecuteStep(t, [r EXCEPT !.step = step], u)

SimpleStartAutoSimulation(t, cl, u) ==
  SimpleStartAutoSimulationLoop([t EXCEPT !.isSimulating = TRUE],
                                SimpleNewRun("auto", 0, cl), 1, u)

SimpleExecuteNextStep(t, cl, u) ==
  IF cl.currentStep >= LastStep
    THEN [s |-> t, run |-> SimpleNewRun("step", 0, cl)]
    ELSE SimpleExecuteStep([t EXCEPT !.isSimulating = TRUE],
                           SimpleNewRun("step", cl.currentStep + 1, cl), u)

\* The callback the simple variant waits for.
SimpleCallback(t, r, u) ==
  CASE r.pc = "lost" ->
         SimpleResume(SimpleExecuteStepResolve(t, r.step, FALSE), r, FALSE)
    [] r.pc = "transit" ->
         SimpleResume(SimpleExecuteStepResolve(t, r.step, TRUE), r, TRUE)
    [] r.pc = "delay" -> SimpleStartAutoSimulationLoop(t, r, r.step + 1, u)
    [] OTHER -> [s |-> t, run |-> r]

\* disabled={isSimulating || (simulationMode === 'step' && currentStep >= 3)}
SimpleMainButtonDisabled ==
  simple.s.isSimulating
    \/ (simulationMode = "step" /\ simple.s.currentStep >= LastStep)

\* disabled={isSimulating}
SimpleResetButtonDisabled == simple.s.isSimulating

(***************************************************************************)
(* Initial state: the values given to useState, before the mount effect.   *)
(***************************************************************************)
Init ==
  /\ clientState = "CLOSED"
  /\ serverState = "CLOSED"
  /\ connectionStatus = "idle"
  /\ logs = <<>>
  /\ simulationMode = "auto"
  /\ packetLoss = loss_none
  /\ randomizeISN = TRUE
  /\ currentStep = 0
  /\ isSimulating = FALSE
  /\ retryCount = 0
  /\ clientISN = ISNBase
  /\ serverISN = InitialServerISN
  /\ clientSeq = ISNBase
  /\ serverSeq = InitialServerISN
  /\ mounted = FALSE
  /\ run = NewRun("none", 0, ResetClosure)
  /\ lastReset = <<>>
  /\ simple = SimpleNotRendered

Settings == <<simulationMode, packetLoss, randomizeISN>>

(***************************************************************************)
(* Actions.                                                                *)
(***************************************************************************)
\* useEffect(() => { resetSimulation(); }, [])
Mount ==
  /\ ~mounted
  /\ mounted' = TRUE
  /\ \E u1, u2 \in ISNRandom :
       Commit(resetSimulation(State, ResetClosure.randomizeISN, u1, u2))
  /\ run' = NewRun("reset", 0, ResetClosure)
  /\ lastReset' = <<ResetClosure>>
  /\ UNCHANGED <<Settings, simple>>

ClickReset ==
  /\ mounted
  /\ ~ResetButtonDisabled
  /\ \E u1, u2 \in ISNRandom :
       Commit(resetSimulation(State, ResetClosure.randomizeISN, u1, u2))
  /\ run' = NewRun("reset", 0, ResetClosure)
  /\ lastReset' = <<ResetClosure>>
  /\ UNCHANGED <<Settings, mounted, simple>>

ClickStart ==
  /\ mounted
  /\ ~MainButtonDisabled
  /\ simulationMode = "auto"
  /\ Len(logs) <= MaxLogLen
  /\ \E u \in LossRandom :
       LET res == startAutoSimulation(State, Closure, u)
       IN Commit(res.s) /\ run' = res.run
  /\ UNCHANGED <<Settings, mounted, lastReset, simple>>

ClickNextStep ==
  /\ mounted
  /\ ~MainButtonDisabled
  /\ simulationMode = "step"
  /\ Len(logs) <= MaxLogLen
  /\ \E u \in LossRandom :
       LET res == executeNextStep(State, Closure, u)
       IN Commit(res.s) /\ run' = res.run
  /\ UNCHANGED <<Settings, mounted, lastReset, simple>>

\* setTimeout(() => resolve(false), 500) of a lost packet
LostTimeout ==
  /\ run.pc = "lost"
  /\ LET res == handleStepExecutionResult(
                  executeStepResolve(State, run.step, FALSE), run, FALSE)
     IN Commit(res.s) /\ run' = res.run
  /\ UNCHANGED <<Settings, mounted, lastReset, simple>>

\* complete: () => resolve(true) of the transit animation
AnimationComplete ==
  /\ run.pc = "transit"
  /\ LET res == handleStepExecutionResult(
                  executeStepResolve(State, run.step, TRUE), run, TRUE)
     IN Commit(res.s) /\ run' = res.run
  /\ UNCHANGED <<Settings, mounted, lastReset, simple>>

\* The retry backoff (1000 ms) or the inter-step delay (500 ms) has elapsed.
DelayElapsed ==
  /\ run.pc = "delay"
  /\ \E u \in LossRandom :
       LET res == IF run.after = "retry"
                    THEN handleStepExecutionAttempt(State, run, u)
                    ELSE startAutoSimulationLoop(State, run, run.step + 1, u)
       IN Commit(res.s) /\ run' = res.run
  /\ UNCHANGED <<Settings, mounted, lastReset, simple>>

SetSimulationMode ==
  /\ mounted
  /\ \E value \in SimulationMode \ {simulationMode} : simulationMode' = value
  /\ UNCHANGED <<clientState, serverState, connectionStatus, logs, packetLoss,
                 randomizeISN, currentStep, isSimulating, retryCount,
                 clientISN, serverISN, clientSeq, serverSeq, mounted, run, lastReset,
                 simple>>

SetPacketLoss ==
  /\ mounted
  /\ \E value \in PacketLoss \ {packetLoss} : packetLoss' = value
  /\ UNCHANGED <<clientState, serverState, connectionStatus, logs,
                 simulationMode, randomizeISN, currentStep, isSimulating,
                 retryCount, clientISN, serverISN, clientSeq, serverSeq,
                 mounted, run, lastReset,
                 simple>>

SetRandomizeISN ==
  /\ mounted
  /\ randomizeISN' = ~randomizeISN
  /\ UNCHANGED <<clientState, serverState, connectionStatus, logs,
                 simulationMode, packetLoss, currentStep, isSimulating,
                 retryCount, clientISN, serverISN, clientSeq, serverSeq,
                 mounted, run, lastReset,
                 simple>>

Next ==
  \/ Mount
  \/ ClickReset
  \/ ClickStart
  \/ ClickNextStep
  \/ LostTimeout
  \/ AnimationComplete
  \/ DelayElapsed
  \/ SetSimulationMode
  \/ SetPacketLoss
  \/ SetRandomizeISN

Spec == Init /\ [][Next]_vars

(***************************************************************************)
(* The handlers called as functions, whatever the buttons allow: the       *)
(* component with, in addition, executeNextStep invoked directly whenever  *)
(* no handler is suspended.                                                *)
(***************************************************************************)
CallExecuteNextStep ==
  /\ mounted
  /\ run.pc = "idle"
  /\ Len(logs) <= MaxLogLen
  /\ \E u \in LossRandom :
       LET res == executeNextStep(State, Closure, u)
       IN Commit(res.s) /\ run' = res.run
  /\ UNCHANGED <<Settings, mounted, lastReset, simple>>

\* A timer that has been set fires, and an animation that has been started
\* completes: the browser runs the callback a run waits for after its delay.
\* A run waits for one callback at a time, and no callback changes a setting.
TimerFires ==
  /\ UNCHANGED Settings
  /\ LostTimeout \/ AnimationComplete \/ DelayElapsed

Fairness == WF_vars(TimerFires)

SpecLive == Spec /\ Fairness

\* Step indices that are not steps of the handshake.
InvalidSteps == {0, 4}

\* executeStep invoked directly with such an index; the run records the value
\* it returned.
CallExecuteStep ==
  /\ mounted
  /\ run.pc = "idle"
  /\ \E step \in InvalidSteps, u \in LossRandom :
       LET e == executeStepSend(State, step, Closure, u)
           done == e.pc = "invalid"
       IN /\ Commit(IF done THEN executeStepResolve(e.s, step, FALSE) ELSE e.s)
          /\ run' = [pc |-> IF done THEN "idle" ELSE e.pc,
                     handler |-> "executeStep", step |-> step, attempts |-> 0,
                     after |-> "none", cl |-> Closure,
                     result |-> executeStepValue(e.pc)]
  /\ UNCHANGED <<Settings, mounted, lastReset, simple>>

(***************************************************************************)
(* The two components side by side: the retrying variant built with        *)
(* maxRetries = 1, in the variables of this module, and the simple variant *)
(* in `simple`.  Both get the same settings, every click goes to the same  *)
(* button of each (and is lost on a disabled button), both see the same    *)
(* draw of Math.random() where a loss is decided, and their callbacks,     *)
(* which wait the same delays, run together.  The initial sequence numbers *)
(* are drawn for each component on its own; no state compared here depends *)
(* on them, and they are drawn from the least and the greatest value.      *)
(***************************************************************************)
ISNEnds == {0, ISNRange - 1}

PairMount ==
  /\ ~mounted
  /\ mounted' = TRUE
  /\ \E u1, u2 \in ISNEnds :
       Commit(resetSimulation(State, ResetClosure.randomizeISN, u1, u2))
  /\ run' = NewRun("reset", 0, ResetClosure)
  /\ lastReset' = <<ResetClosure>>
  /\ \E v1, v2 \in ISNEnds :
       LET c == SimpleFirstRender(simple, randomizeISN, v1, v2)
       IN simple' = [s |-> SimpleResetSimulation(c.s),
                     run |-> SimpleNewRun("reset", 0, SimpleNoRun.cl),
                     mounted |-> TRUE]
  /\ UNCHANGED Settings

PairReset ==
  /\ mounted
  /\ ~ResetButtonDisabled \/ ~SimpleResetButtonDisabled
  /\ IF ResetButtonDisabled
       THEN UNCHANGED <<clientState, serverState, connectionStatus, logs,
                        currentStep, isSimulating, retryCount, clientISN,
                        serverISN, clientSeq, serverSeq, run, lastReset>>
       ELSE /\ \E u1, u2 \in ISNEnds :
                 Commit(resetSimulation(State, ResetClosure.randomizeISN,
                                        u1, u2))
            /\ run' = NewRun("reset", 0, ResetClosure)
            /\ lastReset' = <<ResetClosure>>
  /\ simple' = IF SimpleResetButtonDisabled
                 THEN simple
                 ELSE [simple EXCEPT
                         !.s = SimpleResetSimulation(@),
                         !.run = SimpleNewRun("reset", 0, SimpleNoRun.cl)]
  /\ UNCHANGED <<Settings, mounted>>

\* A click on Start Simulation in each component.
PairStart ==
  /\ mounted
  /\ simulationMode = "auto"
  /\ ~MainButtonDisabled \/ ~SimpleMainButtonDisabled
  /\ Len(logs) <= MaxLogLen
  /\ \E u \in LossRandom :
       LET res == IF MainButtonDisabled THEN [s |-> State, run |-> run]
                  ELSE startAutoSimulationWith(1, State, Closure, u)
           cl == SimpleClosure(simple.s, packetLoss)
           sres == IF SimpleMainButtonDisabled
                     THEN [s |-> simple.s, run |-> simple.run]
                     ELSE SimpleStartAutoSimulation(simple.s, cl, u)
       IN /\ Commit(res.s)
          /\ run' = res.run
          /\ simple' = [simple EXCEPT !.s = sres.s, !.run = sres.run]
  /\ UNCHANGED <<Settings, mounted, lastReset>>

\* A click on Next Step in each component.
PairNextStep ==
  /\ mounted
  /\ simulationMode = "step"
  /\ ~MainButtonDisabled \/ ~SimpleMainButtonDisabled
  /\ Len(logs) <= MaxLogLen
  /\ \E u \in LossRandom :
       LET res == IF MainButtonDisabled THEN [s |-> State, run |-> run]
                  ELSE executeNextStepWith(1, State, Closure, u)
           cl == SimpleClosure(simple.s, packetLoss)
           sres == IF SimpleMainButtonDisabled
                     THEN [s |-> simple.s, run |-> simple.run]
                     ELSE SimpleExecuteNextStep(simple.s, cl, u)
       IN /\ Commit(res.s)
          /\ run' = res.run
          /\ simple' = [simple EXCEPT !.s = sres.s, !.run = sres.run]
  /\ UNCHANGED <<Settings, mounted, lastReset>>

\* The callbacks the two components wait for.
PairCallback ==
  /\ run.pc # "idle" \/ simple.run.pc # "idle"
  /\ \E u \in LossRandom :
       LET res == callbackWith(1, State, run, u)
           sres == SimpleCallback(simple.s, simple.run, u)
       IN /\ Commit(res.s)
          /\ run' = res.run
          /\ simple' = [simple EXCEPT !.s = sres.s, !.run = sres.run]
  /\ UNCHANGED <<Settings, mounted, lastReset>>

NextPair ==
  \/ PairMount
  \/ PairReset
  \/ PairStart
  \/ PairNextStep
  \/ PairCallback
  \/ SetSimulationMode
  \/ SetPacketLoss
  \/ SetRandomizeISN

SpecPair == Init /\ [][NextPair]_vars

NextDirect ==
  \/ Next
  \/ CallExecuteNextStep
  \/ CallExecuteStep

SpecDirect == Init /\ [][NextDirect]_vars

TypeOK ==
  /\ clientState \in TCPState
  /\ serverState \in TCPState
  /\ connectionStatus \in ConnectionStatus
  /\ simulationMode \in SimulationMode
  /\ packetLoss \in PacketLoss
  /\ randomizeISN \in BOOLEAN
  /\ currentStep \in 0..LastStep
  /\ isSimulating \in BOOLEAN
  /\ retryCount \in 0..maxRetries
  /\ run.pc \in {"idle", "lost", "transit", "delay"}
  /\ run.handler \in {"none", "reset", "auto", "step", "executeStep"}


(***************************************************************************)
(* Vocabulary of the properties.                                           *)
(***************************************************************************)
Entry(message, type) == [message |-> message, type |-> type]
ResetEntry == Entry(ResetMessage, "info")
SentEntry(type, seq, ack, direction) ==
  Entry(<<"sent", direction, type, seq, ack>>, "info")
IsSent(entry) == entry.message[1] = "sent"

ButtonRun == run.handler \in {"auto", "step"}
\* The most recent main-button handler has returned.
RunOver(handler) == run.handler = handler /\ run.pc = "idle"
\* It was started in the state a reset leaves.
FromReset == run.cl.logs = <<ResetEntry>>

Established ==
  /\ connectionStatus = "established"
  /\ clientState = "ESTABLISHED"
  /\ serverState = "ESTABLISHED"

Failed ==
  /\ connectionStatus = "failed"
  /\ clientState = "FAILED"
  /\ serverState = "FAILED"

\* The step whose packet kind a loss policy names.
MatchingStep(loss) ==
  CASE loss = loss_syn -> 1 [] loss = loss_syn_ack -> 2 [] loss = loss_ack -> 3
    [] OTHER -> 0

(***************************************************************************)
(* C1: with loss policy none, an auto run started from the freshly reset   *)
(* state has, once it is over, executed steps 1, 2 and 3 and left the      *)
(* connection established with both endpoints ESTABLISHED.                 *)
(***************************************************************************)
C1_AutoRunEstablishes ==
  (RunOver("auto") /\ FromReset /\ run.cl.packetLoss = loss_none)
    => (Established /\ run.step = 3 /\ currentStep = 3)

(***************************************************************************)
(* C2: under loss policy syn (syn-ack, ack) every attempt of step 1 (2, 3) *)
(* is dropped, the run of that step returns only after 3 failed attempts,  *)
(* and then the status is failed, both endpoints are FAILED and retryCount *)
(* is 3; the failed state is not entered before the third failed attempt;  *)
(* an attempt of another step is never dropped.                            *)
(***************************************************************************)
C2_SelectiveLoss ==
  (ButtonRun /\ run.step \in 1..3 /\ MatchingStep(run.cl.packetLoss) # 0)
    => IF run.step = MatchingStep(run.cl.packetLoss)
         THEN /\ run.pc # "transit"
              /\ run.pc = "idle" => run.attempts = maxRetries
              /\ run.attempts = maxRetries =>
                   (run.pc = "idle" /\ Failed /\ retryCount = 3)
              /\ (run.attempts < maxRetries
                    /\ run.cl.connectionStatus # "failed") =>
                   (connectionStatus # "failed" /\ retryCount = run.attempts)
         ELSE run.pc # "lost" /\ run.attempts = 0

C2_Witness ==
  /\ RunOver("step") /\ run.step = 2 /\ run.cl.packetLoss = loss_syn_ack
  /\ run.attempts = 3 /\ Failed /\ retryCount = 3 /\ currentStep = 1

(***************************************************************************)
(* C3: with loss policy ack, an auto run started from the freshly reset    *)
(* state gets steps 1 and 2 through (currentStep 2), fails step 3 three    *)
(* times and ends with status failed.                                      *)
(***************************************************************************)
C3_AutoRunAckLoss ==
  (RunOver("auto") /\ FromReset /\ run.cl.packetLoss = loss_ack)
    => /\ currentStep = 2
       /\ run.step = 3 /\ run.attempts = 3
       /\ connectionStatus = "failed"

(***************************************************************************)
(* C4: with loss policy none, the k-th of three successive single-step     *)
(* advances after a reset takes currentStep from k-1 to k; the status goes *)
(* idle, connecting, connecting, established; the client is SYN-SENT after *)
(* the first, the server SYN-RECEIVED after the second, both ESTABLISHED   *)
(* after the third.                                                        *)
(***************************************************************************)
\* The advance that has just returned is the k-th one after the reset, it
\* and the ones before it having run under policy none with no packet lost.
Advance(k) ==
  /\ RunOver("step")
  /\ run.cl.packetLoss = loss_none
  /\ Len(run.cl.logs) = k
  /\ run.cl.logs[1] = ResetEntry
  /\ \A i \in 2..k : IsSent(run.cl.logs[i])

C4_StepByStep ==
  /\ Advance(1) =>
       /\ run.cl.currentStep = 0 /\ currentStep = 1
       /\ run.cl.connectionStatus = "idle" /\ connectionStatus = "connecting"
       /\ clientState = "SYN-SENT" /\ serverState = "CLOSED"
  /\ Advance(2) =>
       /\ run.cl.currentStep = 1 /\ currentStep = 2
       /\ run.cl.connectionStatus = "connecting"
       /\ connectionStatus = "connecting"
       /\ clientState = "SYN-SENT" /\ serverState = "SYN-RECEIVED"
  /\ Advance(3) =>
       /\ run.cl.currentStep = 2 /\ currentStep = 3
       /\ run.cl.connectionStatus = "connecting"
       /\ Established

C4_Witness == Advance(3) /\ Established /\ currentStep = 3


(***************************************************************************)
(* C5: in every state the status is established exactly when both          *)
(* endpoints are ESTABLISHED, and failed exactly when both are FAILED.     *)
(***************************************************************************)
C5_StatusMatchesEndpoints ==
  /\ connectionStatus = "established"
       <=> (clientState = "ESTABLISHED" /\ serverState = "ESTABLISHED")
  /\ connectionStatus = "failed"
       <=> (clientState = "FAILED" /\ serverState = "FAILED")

(***************************************************************************)
(* C6: once the status is failed, a step that is not a reset leaves the    *)
(* status failed and both endpoints FAILED.                                *)
(***************************************************************************)
IsReset == Mount \/ ClickReset

C6_FailedUntilReset ==
  [][(connectionStatus = "failed" /\ ~IsReset)
       => (connectionStatus' = "failed" /\ clientState' = "FAILED"
             /\ serverState' = "FAILED")]_vars

(***************************************************************************)
(* C7: after a reset with ISN randomization off, an established handshake  *)
(* has sent SYN seq=1000, then SYN-ACK seq=2000 ack=1001, then ACK         *)
(* seq=1001 ack=2001.                                                      *)
(***************************************************************************)
LastResetFixed == lastReset = <<[randomizeISN |-> FALSE]>>

C7_FixedISNPackets ==
  (LastResetFixed /\ Established)
    => \E i, j, k \in DOMAIN logs :
         /\ i < j /\ j < k
         /\ logs[i] = SentEntry(SYN, 1000, undefined, "client-to-server")
         /\ logs[j] = SentEntry(SYN_ACK, 2000, 1001, "server-to-client")
         /\ logs[k] = SentEntry(ACK, 1001, 2001, "client-to-server")

(***************************************************************************)
(* C8: right after a reset, with randomization off clientISN = 1000 and    *)
(* serverISN = 2000; with randomization on clientISN is in 1000..10999 and *)
(* serverISN in 2000..11999.                                               *)
(***************************************************************************)
C8_ISNRanges ==
  run.handler = "reset"
    => IF run.cl.randomizeISN
         THEN /\ clientISN \in ISNBase..(ISNBase + ISNRange - 1)
              /\ serverISN \in
                   InitialServerISN..(InitialServerISN + ISNRange - 1)
         ELSE clientISN = ISNBase /\ serverISN = InitialServerISN

(***************************************************************************)
(* C9: a step that is not a reset never decreases currentStep, and a       *)
(* single-step advance that returns with its retries exhausted leaves      *)
(* currentStep at the value it was started with.                           *)
(***************************************************************************)
C9_StepCounterMonotone ==
  [][/\ ~IsReset => currentStep' >= currentStep
     /\ (run'.handler = "step" /\ run'.pc = "idle"
           /\ run'.attempts = maxRetries)
          => currentStep' = run'.cl.currentStep]_vars

C9_Witness ==
  /\ RunOver("step") /\ run.attempts = maxRetries
  /\ run.cl.currentStep = 2 /\ currentStep = 2 /\ Failed

(***************************************************************************)
(* C10: right after resetSimulation both endpoints are CLOSED, the status  *)
(* is idle, currentStep and retryCount are 0, isSimulating is false, the   *)
(* sequence numbers equal the ISNs, and the log holds the reset notice and *)
(* nothing else.                                                           *)
(***************************************************************************)
ResetScalars ==
  /\ clientState = "CLOSED" /\ serverState = "CLOSED"
  /\ connectionStatus = "idle"
  /\ currentStep = 0 /\ retryCount = 0 /\ isSimulating = FALSE
  /\ clientSeq = clientISN /\ serverSeq = serverISN

Observable ==
  <<clientState, serverState, connectionStatus, currentStep, retryCount, logs>>

C11_ResetIdempotent ==
  [][(IsReset /\ run.handler = "reset") => Observable' = Observable]_vars

\* A reset by the button with randomization off, which follows the reset of
\* the mount effect.
C11_Witness ==
  /\ run.handler = "reset" /\ LastResetFixed
  /\ clientISN = ISNBase /\ serverISN = ISNBase
  /\ Observable = <<"CLOSED", "CLOSED", "idle", 0, 0, <<ResetEntry>> >>

(***************************************************************************)
(* C12: at most one run is in flight: while a handler of the main button   *)
(* is suspended isSimulating is true, and while isSimulating is true no    *)
(* auto run, no single-step advance and no reset can be started.           *)
(***************************************************************************)
InFlight == run.pc # "idle"

C12_OneRunInFlight ==
  /\ InFlight => (isSimulating /\ ButtonRun)
  /\ isSimulating =>
       (~ENABLED ClickStart /\ ~ENABLED ClickNextStep /\ ~ENABLED ClickReset)

C12_Witness ==
  /\ InFlight /\ isSimulating /\ run.pc = "delay"
  /\ simulationMode = "step" /\ currentStep < LastStep
  /\ Len(logs) <= MaxLogLen
  /\ ~ENABLED ClickNextStep


(***************************************************************************)
(* C13: between resets the steps are attempted in the order 1, 2, 3: an    *)
(* attempt of step N+1 (a packet of its kind departing or being lost) is   *)
(* preceded in the log by a delivered packet of step N, no attempt of a    *)
(* lower step follows an attempt of a higher one, and while a run is       *)
(* suspended every attempt it has made so far is one of its current step.  *)
(***************************************************************************)
StepOfType(type) ==
  CASE type = SYN -> 1 [] type = SYN_ACK -> 2 [] type = ACK -> 3

\* The step an entry reports an attempt of; 0 for the other entries.
EntryStep(entry) ==
  IF entry.message[1] = "sent" THEN StepOfType(entry.message[3])
  ELSE IF entry.message[1] = "packet lost!" THEN StepOfType(entry.message[2])
  ELSE 0

C13_StepsInOrder ==
  /\ \A j \in DOMAIN logs :
       EntryStep(logs[j]) > 1 =>
         \E i \in 1..(j - 1) :
           IsSent(logs[i]) /\ EntryStep(logs[i]) = EntryStep(logs[j]) - 1
  /\ \A i, j \in DOMAIN logs :
       (i < j /\ EntryStep(logs[i]) > 0 /\ EntryStep(logs[j]) > 0)
         => EntryStep(logs[i]) <= EntryStep(logs[j])
  /\ InFlight =>
       \A j \in (Len(run.cl.logs) + 1)..Len(logs) :
         EntryStep(logs[j]) \in {0, run.step}

\* Step 3 is being attempted after step 2 was retried and then delivered.
C13_Witness ==
  /\ InFlight /\ run.step = 3
  /\ \E i, j, k \in DOMAIN logs :
       /\ i < j /\ j < k
       /\ ~IsSent(logs[i]) /\ EntryStep(logs[i]) = 2
       /\ IsSent(logs[j]) /\ EntryStep(logs[j]) = 2
       /\ EntryStep(logs[k]) = 3


(***************************************************************************)
(* C14: executeNextStep called with currentStep = 3 returns at once and    *)
(* changes no endpoint state, status, counter, run-active flag or log;     *)
(* called with currentStep < 3 it runs step currentStep + 1, leaves        *)
(* currentStep alone while the step is pending, and on return currentStep  *)
(* is that step if the step succeeded and the old value if it did not.     *)
(***************************************************************************)
\* The state is the one the most recent main-button handler was called in.
SameAsClosure ==
  /\ clientState = run.cl.clientState /\ serverState = run.cl.serverState
  /\ connectionStatus = run.cl.connectionStatus
  /\ currentStep = run.cl.currentStep /\ retryCount = run.cl.retryCount
  /\ isSimulating = run.cl.isSimulating /\ logs = run.cl.logs
  /\ clientSeq = run.cl.clientSeq /\ serverSeq = run.cl.serverSeq

C14_ExecuteNextStep ==
  run.handler = "step" =>
    IF run.cl.currentStep >= LastStep
      THEN run.pc = "idle" /\ run.step = 0 /\ SameAsClosure
      ELSE /\ run.step = run.cl.currentStep + 1
           /\ InFlight => currentStep = run.cl.currentStep
           /\ RunOver("step") =>
                currentStep = IF run.attempts < maxRetries
                                THEN run.step ELSE run.cl.currentStep

C14_Witness ==
  /\ run.handler = "step" /\ run.cl.currentStep = LastStep
  /\ Established /\ currentStep = LastStep /\ ~isSimulating


(***************************************************************************)
(* C15: shouldDropPacket is false for every packet kind under policy none; *)
(* under policy syn it is true for SYN only, under syn-ack for SYN-ACK     *)
(* only, under ack for ACK only, whatever Math.random() would give; and an *)
(* attempt made by a run is lost or departs accordingly.                   *)
(***************************************************************************)
C15_LossOracle ==
  /\ \A type \in PacketType, u \in LossRandom :
       /\ ~shouldDropPacket(type, loss_none, u)
       /\ shouldDropPacket(type, loss_syn, u) <=> type = SYN
       /\ shouldDropPacket(type, loss_syn_ack, u) <=> type = SYN_ACK
       /\ shouldDropPacket(type, loss_ack, u) <=> type = ACK
  /\ (ButtonRun /\ run.pc \in {"lost", "transit"}
        /\ run.cl.packetLoss # loss_random)
       => (run.pc = "lost" <=> run.step = MatchingStep(run.cl.packetLoss))

\* Under policy syn a SYN-ACK is on its way.
C15_Witness ==
  /\ ButtonRun /\ run.pc = "transit" /\ run.step = 2
  /\ run.cl.packetLoss = loss_syn
  /\ logs[Len(logs)] =
       SentEntry(SYN_ACK, serverSeq, clientSeq + 1, "server-to-client")


(***************************************************************************)
(* C16: retryCount is always in 0..3, and it is 0 when handleStepExecution *)
(* begins the first attempt of a step and for as long as no attempt of     *)
(* that step has failed.                                                   *)
(***************************************************************************)
C16_RetryCountZeroAtStart ==
  /\ retryCount \in 0..maxRetries
  /\ (ButtonRun /\ run.step >= 1) => run.cl.retryCount = 0
  /\ (ButtonRun /\ InFlight /\ run.attempts = 0) => retryCount = 0

(***************************************************************************)
(* C17: executeStep called with an index outside 1..3 returns false and    *)
(* changes no endpoint state, status, counter or log; and the handlers of  *)
(* the main button call executeStep with an index in 1..3 only (a handler  *)
(* whose step is still 0 has called it not at all).                        *)
(***************************************************************************)
C17_InvalidStepIndex ==
  /\ run.handler = "executeStep" =>
       (run.pc = "idle" /\ run.result = FALSE /\ SameAsClosure)
  /\ ButtonRun =>
       /\ run.step \in 0..LastStep
       /\ run.step = 0 => (run.pc = "idle" /\ logs = run.cl.logs)

\* executeStep(4) was called in the middle of a handshake.
C17_Witness ==
  /\ run.handler = "executeStep" /\ run.step = 4 /\ run.result = FALSE
  /\ currentStep = 2 /\ serverState = "SYN-RECEIVED" /\ SameAsClosure

(***************************************************************************)
(* C18: when handleStepExecution has returned success, after fewer than 3  *)
(* dropped attempts of its step, retryCount is 0, the driver has advanced  *)
(* the step counter to that step, and an endpoint state or the status has  *)
(* the failed value only if it had it when the run began.                  *)
(***************************************************************************)
StepSucceeded ==
  /\ ButtonRun
  /\ run.step >= 1
  /\ run.attempts < maxRetries
  /\ run.pc = "idle" \/ (run.pc = "delay" /\ run.after = "next")

C18_SuccessAfterRetries ==
  StepSucceeded =>
    /\ retryCount = 0
    /\ currentStep = run.step
    /\ clientState = "FAILED" => run.cl.clientState = "FAILED"
    /\ serverState = "FAILED" => run.cl.serverState = "FAILED"
    /\ connectionStatus = "failed" => run.cl.connectionStatus = "failed"

\* The SYN-ACK got through on the third attempt.
C18_Witness ==
  /\ StepSucceeded /\ run.step = 2 /\ run.attempts = maxRetries - 1
  /\ retryCount = 0 /\ currentStep = 2
  /\ clientState = "SYN-SENT" /\ serverState = "SYN-RECEIVED"
  /\ connectionStatus = "connecting"

(***************************************************************************)
(* C19: an attempt whose packet is dropped makes the pre-transition of its *)
(* step and no other change of an endpoint state or the status (step 1:    *)
(* client SYN-SENT and status connecting; step 2: server SYN-RECEIVED;     *)
(* step 3: nothing), and when the drop is handled without exhausting the   *)
(* retries the endpoint states, the status and the step counter stay.      *)
(***************************************************************************)
Endpoints == <<clientState, serverState, connectionStatus>>

DroppedAttemptSent ==
  (ButtonRun' /\ run'.pc = "lost") =>
    CASE run'.step = 1 ->
           Endpoints' = <<"SYN-SENT", serverState, "connecting">>
      [] run'.step = 2 ->
           Endpoints' = <<clientState, "SYN-RECEIVED", connectionStatus>>
      [] OTHER -> Endpoints' = Endpoints

DroppedAttemptHandled ==
  (run.pc = "lost" /\ run.attempts + 1 < maxRetries) =>
    /\ run'.pc \in {"lost", "delay"}
    /\ Endpoints' = Endpoints
    /\ currentStep' = currentStep

C19_DroppedAttempt == [][DroppedAttemptSent /\ DroppedAttemptHandled]_vars

\* The SYN was dropped once and the retransmission is awaited.
C19_Witness ==
  /\ run.handler = "step" /\ run.step = 1 /\ run.attempts = 1
  /\ run.pc = "delay" /\ run.after = "retry"
  /\ Endpoints = <<"SYN-SENT", "CLOSED", "connecting">>
  /\ retryCount = 1 /\ currentStep = 0

(***************************************************************************)
(* C20: an endpoint state or the status takes the failed value only in the *)
(* step that handles the third dropped attempt in a row of one             *)
(* handleStepExecution invocation, and that step sets both endpoint states *)
(* to FAILED, the status to failed and isSimulating to false together.     *)
(***************************************************************************)
BecomesFailed ==
  \/ clientState' = "FAILED" /\ clientState # "FAILED"
  \/ serverState' = "FAILED" /\ serverState # "FAILED"
  \/ connectionStatus' = "failed" /\ connectionStatus # "failed"

C20_FailedOnlyAfterThreeDrops ==
  [][BecomesFailed =>
       /\ ButtonRun /\ run.pc = "lost" /\ run.attempts = maxRetries - 1
       /\ run'.attempts = maxRetries /\ run'.step = run.step
       /\ run'.cl = run.cl
       /\ Endpoints' = <<"FAILED", "FAILED", "failed">>
       /\ ~isSimulating']_vars

\* The ACK was dropped three times.
C20_Witness ==
  /\ Failed /\ ~isSimulating /\ run.handler = "step" /\ run.step = 3
  /\ run.attempts = maxRetries /\ retryCount = maxRetries /\ currentStep = 2

(***************************************************************************)
(* C23: only a reset writes clientISN, serverISN, clientSeq and serverSeq: *)
(* every other step leaves the four unchanged, and in every state after    *)
(* the first reset clientSeq = clientISN and serverSeq = serverISN.        *)
(***************************************************************************)
SequenceNumbers == <<clientISN, serverISN, clientSeq, serverSeq>>

C23_SequenceNumbersFrame ==
  /\ [](mounted => (clientSeq = clientISN /\ serverSeq = serverISN))
  /\ [][~IsReset => SequenceNumbers' = SequenceNumbers]_vars

\* A handshake was completed on randomly drawn initial sequence numbers.
C23_Witness ==
  /\ Established /\ RunOver("step") /\ run.step = LastStep
  /\ clientISN = ISNBase + ISNRange - 1 /\ clientSeq = clientISN
  /\ serverSeq = serverISN

(***************************************************************************)
(* C24: in every reachable state, currentStep = 3 implies that the status  *)
(* is established and both endpoints are ESTABLISHED.                      *)
(***************************************************************************)
C24_LastStepEstablished == currentStep = LastStep => Established

\* The ACK got through on its second attempt and the counter reached 3.
C24_Witness ==
  /\ currentStep = LastStep /\ Established /\ ~isSimulating
  /\ RunOver("step") /\ run.step = LastStep /\ run.attempts = 1

(***************************************************************************)
(* C25: every step other than a reset keeps the entries of the log, in     *)
(* order, and adds at its end exactly: for a handled drop the              *)
(* retransmission entry (or the failure entry after the last attempt), for *)
(* a delivered ACK the establishment entry, and for a launched attempt the *)
(* lost-packet entry if it is dropped, else the departure entry.           *)
(***************************************************************************)
\* Entries added by the part of a step that handles the end of a wait.
HandledEntries ==
  CASE run.pc = "lost" /\ run.attempts + 1 < maxRetries ->
         <<Entry(RetransmitMessage(run.attempts + 2), "warning")>>
    [] run.pc = "lost" /\ run.attempts + 1 >= maxRetries ->
         <<Entry(FailedMessage, "error")>>
    [] run.pc = "transit" /\ run.step = LastStep ->
         <<Entry(EstablishedMessage, "success")>>
    [] OTHER -> <<>>

\* The entry a step adds for the attempt it launches.
IsLaunchedEntry(entry) ==
  /\ EntryStep(entry) = run'.step
  /\ IF run'.pc = "lost"
       THEN entry = Entry(LostMessage(entry.message[2]), "error")
       ELSE IsSent(entry) /\ entry.type = "info"

LogStep ==
  LET n == Len(logs)
      \* a step that leaves the run as it is changes a setting
      handled == IF run' # run THEN HandledEntries ELSE <<>>
      h == Len(handled)
      launched == run' # run /\ run'.pc \in {"lost", "transit"}
  IN /\ Len(logs') = n + h + (IF launched THEN 1 ELSE 0)
     /\ SubSeq(logs', 1, n) = logs
     /\ SubSeq(logs', n + 1, n + h) = handled
     /\ launched => IsLaunchedEntry(logs'[Len(logs')])

C25_LogAppendOnly == [][~IsReset => LogStep]_vars

\* A log with a lost-packet, a retransmission, three departure entries and
\* the establishment entry.
C25_Witness ==
  /\ Established /\ Len(logs) >= 7
  /\ logs[1] = ResetEntry
  /\ logs[Len(logs)] = Entry(EstablishedMessage, "success")
  /\ \E i \in DOMAIN logs : logs[i] = Entry(RetransmitMessage(2), "warning")
  /\ \E i \in DOMAIN logs : logs[i] = Entry(LostMessage(SYN_ACK), "error")

(***************************************************************************)
(* C21: every started run terminates with isSimulating false again; a      *)
(* handleStepExecution invocation makes at least 1 and at most 3 attempts  *)
(* of its step; the backoff is awaited only after a failed attempt that a  *)
(* further attempt follows, and the third failed attempt ends the run at   *)
(* once.  No handler starts while a run is in flight (C12), so the first   *)
(* idle state after a state with a run in flight is the end of that run.   *)
(***************************************************************************)
\* The attempts the single-step advance in `run` has made so far: the
\* lost-packet and departure entries it has added to the log.
AttemptsMade ==
  Cardinality({i \in (Len(run.cl.logs) + 1)..Len(logs) : EntryStep(logs[i]) # 0})

BoundedAttempts ==
  /\ run.attempts \in 0..maxRetries
  /\ (ButtonRun /\ InFlight) => run.attempts < maxRetries
  /\ (ButtonRun /\ run.pc = "delay" /\ run.after = "retry") => run.attempts >= 1
  /\ (ButtonRun /\ run.attempts = maxRetries) => run.pc = "idle"
  /\ (ButtonRun /\ run.pc = "idle") => ~isSimulating
  /\ (run.handler = "step" /\ run.step >= 1) =>
       /\ AttemptsMade \in 1..maxRetries
       /\ AttemptsMade = run.attempts
                           + (IF run.pc = "delay" \/ run.attempts = maxRetries
                                THEN 0 ELSE 1)

C21_RunsTerminate ==
  /\ []BoundedAttempts
  /\ []<>(run.pc = "idle" /\ ~isSimulating)

\* An advance under random loss has ended after a dropped and a delivered
\* attempt.
C21_Witness ==
  /\ RunOver("step") /\ run.cl.packetLoss = loss_random
  /\ run.attempts = 1 /\ AttemptsMade = 2 /\ ~isSimulating

(***************************************************************************)
(* C22: the simple variant and the retrying variant built with             *)
(* maxRetries = 1, given the same operations and the same loss outcomes,   *)
(* have the same clientState, serverState, connectionStatus and            *)
(* currentStep in every state (and wait for the same callbacks), and in    *)
(* both the first dropped packet of a step gives failed/FAILED/FAILED with *)
(* no second attempt.                                                      *)
(***************************************************************************)
SimpleFailed ==
  /\ simple.s.connectionStatus = "failed"
  /\ simple.s.clientState = "FAILED"
  /\ simple.s.serverState = "FAILED"

C22_SimpleIsOneAttempt ==
  /\ simple.mounted = mounted
  /\ simple.s.clientState = clientState
  /\ simple.s.serverState = serverState
  /\ simple.s.connectionStatus = connectionStatus
  /\ simple.s.currentStep = currentStep
  /\ simple.s.isSimulating = isSimulating
  /\ simple.run.pc = run.pc
  /\ simple.run.step = run.step
  /\ run.pc \in {"idle", "lost", "transit"}
  /\ run.attempts \in {0, 1}
  /\ (ButtonRun /\ run.attempts = 1) => (run.pc = "idle" /\ Failed /\ SimpleFailed)

\* In both variants the SYN was delivered and the first SYN-ACK dropped.
C22_Witness ==
  /\ run.handler = "step" /\ run.step = 2 /\ run.attempts = 1
  /\ simple.run.handler = "step" /\ simple.run.step = 2
  /\ Failed /\ SimpleFailed
  /\ currentStep = 1 /\ simple.s.currentStep = 1
  /\ simple.s.logs[Len(simple.s.logs)] = SimpleFailedMessage

====
